---- MODULE Spec2Model ----
(***************************************************************************)
(* A model of the private HTTPS file server: the token / path translation  *)
(* of TokenRangeHTTPRequestHandler.translate_path, the Range handling and  *)
(* the response / log-event behaviour of do_GET (src/server.py), and the   *)
(* earlier do_GET kept in src/serve/server.py.                             *)
(*                                                                         *)
(* Strings are sequences of symbols.  A symbol is one character ("/", ".", *)
(* "=", "-", a digit), one percent-escape ("%2e", "%2f") or one word that  *)
(* is never split ("tok" is the text of the capability token, "resources"  *)
(* the name of the second root, "cwd" the working directory).              *)
(***************************************************************************)
EXTENDS Integers, Sequences, FiniteSets, Bags, TLC

VARIABLES
    tpIn,       \* the request path handed to translate_path
    tpDone,     \* translate_path has returned
    tpOut,      \* the filesystem path it returned ("" is <<>>)
    fileLen,    \* st_size of the served regular files
    hasIndex,   \* public_html contains index.html
    exch,       \* per worker: the last request it handled and what it did
    lock,       \* FileTransferLog.lock: "free" or the thread that holds it
    conn,       \* FileTransferLog.conn: "open", or "None" once closed
    store,      \* database.db: table created, committed rows, open transaction,
                \* number of conn.close() calls
    unit,       \* per log_transfer call: the thread running _log_transfer
    wk,         \* per request thread: its response and how far it has got
    main,       \* the main thread: where it is, the frame a signal interrupted
    shutdown_in_progress,   \* the global flag of src/server.py
    boot        \* the module body of src/server.py: config.json, how far the
                \* start-up has got and what it has set up

reqVars == <<tpIn, tpDone, tpOut, fileLen, hasIndex, exch, boot>>
logVars == <<lock, conn, store, unit, wk, main, shutdown_in_progress>>
vars == <<tpIn, tpDone, tpOut, fileLen, hasIndex, exch, boot,
          lock, conn, store, unit, wk, main, shutdown_in_progress>>

\* ------------------------------------------------------------------ bounds
MaxPathLen == 5    \* longest request path (symbols) given to translate_path
MaxLen == 3        \* longest served file (bytes)
MaxNum == 4        \* largest digit written in a Range header

\* ------------------------------------------------------- string primitives
Min(a, b) == IF a < b THEN a ELSE b
Max(a, b) == IF a > b THEN a ELSE b

Tail2(s, n) == SubSeq(s, n + 1, Len(s))

\* index of the first occurrence of c in s, 0 when there is none (str.find + 1)
RECURSIVE FindFrom(_, _, _)
FindFrom(s, c, i) ==
    IF i > Len(s) THEN 0
    ELSE IF s[i] = c THEN i
    ELSE FindFrom(s, c, i + 1)

Find(s, c) == FindFrom(s, c, 1)

\* str.split(c): always at least one part
RECURSIVE Split(_, _)
Split(s, c) ==
    LET i == Find(s, c) IN
    IF i = 0 THEN <<s>>
    ELSE <<SubSeq(s, 1, i - 1)>> \o Split(Tail2(s, i), c)

\* str.split(c, 1): at most two parts
Split1(s, c) ==
    LET i == Find(s, c) IN
    IF i = 0 THEN <<s>>
    ELSE <<SubSeq(s, 1, i - 1), Tail2(s, i)>>

RECURSIVE LStrip(_, _)
LStrip(s, c) ==
    IF Len(s) > 0 /\ s[1] = c THEN LStrip(Tail(s), c) ELSE s

RECURSIVE RStrip(_, _)
RStrip(s, c) ==
    IF Len(s) > 0 /\ s[Len(s)] = c THEN RStrip(SubSeq(s, 1, Len(s) - 1), c) ELSE s

\* str.strip(c)
Strip(s, c) == RStrip(LStrip(s, c), c)

\* all sequences over S of length at most n
SeqsUpTo(S, n) == UNION {[1..k -> S] : k \in 0..n}

\* ------------------------------------------------- program constants
token == <<"tok">>                 \* token_urlsafe(48), fixed for the process
Cwd == <<"/", "cwd">>              \* os.getcwd()
PublicRoot == <<"cwd", "public_html">>
ResourcesRoot == <<"cwd", "resources">>

\* ------------------------------------------------- urllib.parse, os.path
\* urlparse(path).path: a leading "//" introduces a network location that
\* runs to the next "/" or "?"; the path ends at the first "?".
UrlPath(url) ==
    LET afterNetloc ==
            IF Len(url) >= 2 /\ url[1] = "/" /\ url[2] = "/"
            THEN LET rest == Tail2(url, 2)
                     s == Find(rest, "/")
                     q == Find(rest, "?")
                     cut == IF s = 0 THEN q
                            ELSE IF q = 0 THEN s ELSE Min(s, q)
                 IN  IF cut = 0 THEN <<>> ELSE Tail2(rest, cut - 1)
            ELSE url
        q2 == Find(afterNetloc, "?")
    IN  IF q2 = 0 THEN afterNetloc ELSE SubSeq(afterNetloc, 1, q2 - 1)

\* unquote: every percent-escape becomes the character it encodes
UnquoteSym(c) ==
    IF c = "%2e" THEN "." ELSE IF c = "%2f" THEN "/" ELSE c

Unquote(s) == [i \in 1..Len(s) |-> UnquoteSym(s[i])]

\* posixpath.join(a, b)
OsJoin(a, b) ==
    IF Len(b) > 0 /\ b[1] = "/" THEN b
    ELSE IF Len(a) = 0 \/ a[Len(a)] = "/" THEN a \o b
    ELSE a \o <<"/">> \o b

\* posixpath.normpath of an absolute path, as its list of components: empty
\* and "." components are dropped, ".." removes the component before it
RECURSIVE NormComps(_, _)
NormComps(comps, acc) ==
    IF comps = <<>> THEN acc
    ELSE LET c == Head(comps) IN
         IF c = <<>> \/ c = <<".">> THEN NormComps(Tail(comps), acc)
         ELSE IF c = <<".", ".">>
              THEN NormComps(Tail(comps),
                             IF acc = <<>> THEN acc ELSE SubSeq(acc, 1, Len(acc) - 1))
              ELSE NormComps(Tail(comps), Append(acc, c))

Normpath(p) == NormComps(Split(p, "/"), <<>>)

\* the file named by path p is root itself or lies below it
IsPrefix(r, s) == Len(r) <= Len(s) /\ SubSeq(s, 1, Len(r)) = r

Word(w) == <<w>>

RootComps(root) == [i \in 1..Len(root) |-> Word(root[i])]

Inside(p, root) == IsPrefix(RootComps(root), Normpath(p))

\* ------------------------------------------------- translate_path
\* translate_path accepting every first segment that begins with the token
translate_path_prefix(path) ==
    LET parsed_path == UrlPath(path)
        path_parts == Split1(Strip(parsed_path, "/"), "/")
    IN  IF Len(path_parts) >= 1 /\ IsPrefix(token, path_parts[1])
        THEN OsJoin(OsJoin(Cwd, <<"public_html">>),
                    IF Len(path_parts) = 2
                    THEN Strip(Unquote(path_parts[2]), "/") ELSE <<>>)
        ELSE <<>>

\* translate_path looking for "resources" before decoding the remainder
translate_path_rawSplit(path) ==
    LET parsed_path == UrlPath(path)
        path_parts == Split1(Strip(parsed_path, "/"), "/")
    IN  IF Len(path_parts) >= 1 /\ path_parts[1] = token
        THEN IF Len(path_parts) = 2
             THEN LET decoded_path == Unquote(path_parts[2])
                      resource_parts == Split1(path_parts[2], "/")
                  IN  IF Unquote(resource_parts[1]) = <<"resources">>
                      THEN LET new_path == <<"/">> \o
                                   (IF Len(resource_parts) > 1
                                    THEN Unquote(resource_parts[2]) ELSE <<>>)
                           IN  OsJoin(OsJoin(Cwd, <<"resources">>),
                                      Strip(new_path, "/"))
                      ELSE OsJoin(OsJoin(Cwd, <<"public_html">>),
                                  Strip(decoded_path, "/"))
             ELSE OsJoin(OsJoin(Cwd, <<"public_html">>), <<>>)
        ELSE <<>>

translate_path(path) ==
    LET parsed_path == UrlPath(path)
        path_parts == Split1(Strip(parsed_path, "/"), "/")
    IN  IF Len(path_parts) >= 1 /\ path_parts[1] = token
        THEN IF Len(path_parts) = 2
             THEN LET decoded_path == Unquote(path_parts[2])
                      resource_parts == Split1(decoded_path, "/")
                  IN  IF resource_parts[1] = <<"resources">>
                      THEN LET new_path == <<"/">> \o
                                   (IF Len(resource_parts) > 1
                                    THEN resource_parts[2] ELSE <<>>)
                           IN  OsJoin(OsJoin(Cwd, <<"resources">>),
                                      Strip(new_path, "/"))
                      ELSE OsJoin(OsJoin(Cwd, <<"public_html">>),
                                  Strip(decoded_path, "/"))
             ELSE OsJoin(OsJoin(Cwd, <<"public_html">>), <<>>)
        ELSE <<>>

\* ------------------------------------------------- optional values
None == <<>>
Some(x) == <<x>>

\* ------------------------------------------------- the Range header
DigitSyms == <<"0", "1", "2", "3", "4", "5", "6", "7", "8", "9">>

DigitVal(c) == CHOOSE n \in 0..9 : DigitSyms[n + 1] = c

IsDigit(c) == \E n \in 0..9 : DigitSyms[n + 1] = c

\* int(s) succeeds on a non-empty string of digits
IsInt(s) == Len(s) > 0 /\ \A i \in 1..Len(s) : IsDigit(s[i])

RECURSIVE IntOf(_)
IntOf(s) ==
    IF Len(s) = 0 THEN 0
    ELSE 10 * IntOf(SubSeq(s, 1, Len(s) - 1)) + DigitVal(s[Len(s)])

\* "Early parsing of the range header": ok = FALSE stands for the
\* ValueError / IndexError that is answered with 400
ParseRange(range_header) ==
    IF range_header = <<>>
    THEN [ok |-> TRUE, start |-> None, end |-> None]
    ELSE LET eq == Split(range_header, "=") IN
         IF Len(eq) # 2
         THEN [ok |-> FALSE, start |-> None, end |-> None]
         ELSE LET parts == Split(eq[2], "-")
                  p0 == parts[1]
                  hasP1 == Len(parts) > 1 /\ parts[2] # <<>>
              IN  IF (p0 # <<>> /\ ~IsInt(p0)) \/ (hasP1 /\ ~IsInt(parts[2]))
                  THEN [ok |-> FALSE, start |-> None, end |-> None]
                  ELSE [ok |-> TRUE,
                        start |-> IF p0 # <<>> THEN Some(IntOf(p0)) ELSE None,
                        end |-> IF hasP1 THEN Some(IntOf(parts[2])) ELSE None]

\* ResolveRange without the start > end test
ResolveRange_noInverted(start, end, fs_size) ==
    LET start1 == IF start = None /\ end # None
                  THEN Max(0, fs_size - end[1])
                  ELSE start[1]
        end1 == IF (start = None /\ end # None) \/ end = None
                THEN fs_size - 1
                ELSE end[1]
    IN  [sat |-> ~(end1 >= fs_size), start |-> start1, end |-> end1]

\* ResolveRange clamping an end beyond the file instead of rejecting it
ResolveRange_clamp(start, end, fs_size) ==
    LET start1 == IF start = None /\ end # None
                  THEN Max(0, fs_size - end[1])
                  ELSE start[1]
        end1 == IF (start = None /\ end # None) \/ end = None
                THEN fs_size - 1
                ELSE Min(end[1], fs_size - 1)
    IN  [sat |-> ~(start1 > end1), start |-> start1, end |-> end1]

\* ResolveRange taking a suffix one byte too long
ResolveRange_suffixOff(start, end, fs_size) ==
    LET start1 == IF start = None /\ end # None
                  THEN Max(0, fs_size - end[1] - 1)
                  ELSE start[1]
        end1 == IF (start = None /\ end # None) \/ end = None
                THEN fs_size - 1
                ELSE end[1]
    IN  [sat |-> ~(end1 >= fs_size \/ start1 > end1),
         start |-> start1, end |-> end1]

\* "Now validate and adjust the range with file size info": sat = FALSE is
\* the 416 branch
ResolveRange(start, end, fs_size) ==
    LET start1 == IF start = None /\ end # None
                  THEN Max(0, fs_size - end[1])
                  ELSE start[1]
        end1 == IF (start = None /\ end # None) \/ end = None
                THEN fs_size - 1
                ELSE end[1]
    IN  [sat |-> ~(end1 >= fs_size \/ start1 > end1),
         start |-> start1, end |-> end1]

\* ------------------------------------------------- the filesystem
Name(w) == <<w>>
IndexHtml == <<"index", ".html">>
PubDir == <<Name("cwd"), Name("public_html")>>
ResDir == <<Name("cwd"), Name("resources")>>

\* what the components of a normalised path name
Dirs == {<<Name("cwd")>>, PubDir, ResDir,
         Append(PubDir, Name("d")), Append(PubDir, Name("noperm"))}

RegularFiles ==
    {Append(PubDir, Name("a")), Append(PubDir, <<"a", ".zip">>),
     Append(PubDir, Name("locked")), Append(PubDir, Name("B")),
     Append(ResDir, Name("a")),
     <<Name("cwd"), <<"config", ".json">>>>}
    \cup (IF hasIndex THEN {Append(PubDir, IndexHtml)} ELSE {})

isdir(path) == Normpath(path) \in Dirs

\* os.listdir raises PermissionError on this directory
CanList(path) == Normpath(path) # Append(PubDir, Name("noperm"))

\* the names os.listdir returns
listdir(path) ==
    LET c == Normpath(path) IN
    {f[Len(f)] : f \in {g \in Dirs \cup RegularFiles :
                          Len(g) = Len(c) + 1 /\ IsPrefix(c, g)}}

\* open(path, "rb") succeeds
CanOpen(path) ==
    /\ Normpath(path) \in RegularFiles
    /\ Normpath(path) # Append(PubDir, Name("locked"))

\* byte i of every regular file is i + 1, so a slice shows its offsets
FileBytes == [i \in 1..fileLen |-> i]

\* a read that stops one byte early
ReadAt_short(pos, n) ==
    IF n < 0 THEN SubSeq(FileBytes, pos + 1, fileLen)
    ELSE SubSeq(FileBytes, pos + 1, Min(pos + n - 1, fileLen))

\* f.seek(pos); f.read(n)
ReadAt(pos, n) ==
    IF n < 0 THEN SubSeq(FileBytes, pos + 1, fileLen)
    ELSE SubSeq(FileBytes, pos + 1, Min(pos + n, fileLen))

\* ------------------------------------------------- os.path.splitext
\* the symbols that begin with a dot, and the separator
DotSyms == {".", ".zip", ".html", ".json"}
SlashSyms == {"/"}

\* str.rfind of any symbol of S, 0 when there is none
RECURSIVE RFind(_, _, _)
RFind(s, S, i) ==
    IF i = 0 THEN 0 ELSE IF s[i] \in S THEN i ELSE RFind(s, S, i - 1)

splitext_ext(p) ==
    LET sepIndex == RFind(p, SlashSyms, Len(p))
        dotIndex == RFind(p, DotSyms, Len(p))
    IN  IF dotIndex > sepIndex
           /\ \E k \in (sepIndex + 1)..(dotIndex - 1) : p[k] # "."
        THEN Tail2(p, dotIndex - 1)
        ELSE <<>>

basename(p) == Tail2(p, RFind(p, SlashSyms, Len(p)))

DOWNLOAD_EXTENSIONS == {<<".zip">>}

\* mimetypes.guess_type(path) without the default for None
MimeType_noDefault(path) ==
    LET ext == splitext_ext(path) IN
    IF ext = <<".html">> THEN "text/html"
    ELSE IF ext = <<".zip">> THEN "application/zip"
    ELSE IF ext = <<".json">> THEN "application/json"
    ELSE "None"

\* mimetypes.guess_type(path), None replaced by the default
MimeType(path) ==
    LET ext == splitext_ext(path) IN
    IF ext = <<".html">> THEN "text/html"
    ELSE IF ext = <<".zip">> THEN "application/zip"
    ELSE IF ext = <<".json">> THEN "application/json"
    ELSE "application/octet-stream"

\* ------------------------------------------------- one request's effects
\* wire: what reached the client, buf: the header buffer, events: the
\* log_transfer calls, trace: the order of filesystem calls, log calls and
\* writes, broken: a write has failed (the client is gone), exc: the
\* exception being raised ("none" when there is none)
H0 == [wire |-> <<>>, buf |-> <<>>, events |-> <<>>, trace |-> <<>>,
       broken |-> FALSE, exc |-> "none"]

StatusLine(code) == [t |-> "status", code |-> code]
Header(name, val) == [t |-> "header", name |-> name, val |-> val]
Body(data) == [t |-> "body", data |-> data]

URL == <<"URL">>          \* config "url"
root == FALSE             \* self.root, set once in __init__

FsCall(h, op) == [h EXCEPT !.trace = Append(@, op)]

send_response(h, code) == [h EXCEPT !.buf = Append(@, StatusLine(code))]

send_header(h, name, val) == [h EXCEPT !.buf = Append(@, Header(name, val))]

\* wfile.write(data): raises io.kind when the transport fails at this point
\* or has failed before
Flush(h, io) ==
    IF h.broken \/ io.failAt = "headers"
    THEN [h EXCEPT !.broken = TRUE, !.exc = io.kind, !.buf = <<>>]
    ELSE [h EXCEPT !.wire = @ \o h.buf, !.buf = <<>>,
                   !.trace = Append(@, "headers")]

WriteBody(h, data, io) ==
    IF h.broken \/ io.failAt = "body"
    THEN [h EXCEPT !.broken = TRUE, !.exc = io.kind]
    ELSE [h EXCEPT !.wire = Append(@, Body(data)),
                   !.trace = Append(@, "body")]

\* f.read(): raises io.kind when the file cannot be read (an I/O error of
\* the disk); the transport is not affected
ReadFile(h, io) ==
    IF io.failAt = "read" THEN [h EXCEPT !.exc = io.kind] ELSE h

\* a copy that loses the last byte of the file
copyfile_short(h, data, io) ==
    IF ReadFile(h, io).exc # "none" THEN ReadFile(h, io)
    ELSE IF data = <<>> THEN h
    ELSE WriteBody(h, SubSeq(data, 1, Len(data) - 1), io)

\* copyfile(f, self.wfile): writes the chunks read from f, none for an empty f
copyfile(h, data, io) ==
    IF ReadFile(h, io).exc # "none" THEN ReadFile(h, io)
    ELSE IF data = <<>> THEN h
    ELSE WriteBody(h, data, io)

\* self.wfile.write(f.read(n))
write_read(h, data, io) ==
    IF ReadFile(h, io).exc # "none" THEN ReadFile(h, io)
    ELSE WriteBody(h, data, io)

\* the end_headers override: Content-Disposition from the request path
end_headers(h, reqPath, io) ==
    LET ext == splitext_ext(reqPath)
        h1 == IF ext \in DOWNLOAD_EXTENSIONS
              THEN send_header(h, "Content-Disposition", basename(reqPath))
              ELSE h
    IN  Flush(h1, io)

\* BaseHTTPRequestHandler.send_error: status, headers and an error page
base_send_error(h, code, reqPath, io) ==
    LET h1 == send_response(h, code)
        h2 == send_header(h1, "Connection", <<"close">>)
        h3 == send_header(h2, "Content-Type", <<"text/html;charset=utf-8">>)
        h4 == send_header(h3, "Content-Length", <<1>>)
        h5 == end_headers(h4, reqPath, io)
    IN  IF h5.exc # "none" THEN h5 ELSE WriteBody(h5, <<"error page">>, io)

send_error(h, code, reqPath, io) ==
    IF code = 404 /\ ~root
    THEN end_headers(send_header(send_response(h, 302), "Location", URL),
                     reqPath, io)
    ELSE base_send_error(h, code, reqPath, io)

\* FileTransferLog.log_transfer: hands the event to a new thread and returns
log_transfer(h, path, status, start_byte, end_byte) ==
    [h EXCEPT !.events = Append(@, [path |-> path, status |-> status,
                                    start_byte |-> start_byte,
                                    end_byte |-> end_byte,
                                    client_ip |-> "ip"]),
              !.trace = Append(@, "log")]

\* ------------------------------------------------- list_directory
\* listing.sort(key=lambda a: a.lower()): the rank of a name's lower-cased
\* text among the names of the model's filesystem
LowerRank(name) ==
    IF name = Name("a") THEN 1
    ELSE IF name = <<"a", ".zip">> THEN 2
    ELSE IF name = Name("B") THEN 3
    ELSE IF name = <<"config", ".json">> THEN 4
    ELSE IF name = Name("d") THEN 5
    ELSE IF name = IndexHtml THEN 6
    ELSE IF name = Name("locked") THEN 7
    ELSE IF name = Name("noperm") THEN 8
    ELSE IF name = Name("public_html") THEN 9
    ELSE 10

\* a sort key that keeps the case: upper-case letters sort before lower-case
SortKey_caseSensitive(name) == IF name = Name("B") THEN 0 ELSE LowerRank(name)

\* key=lambda a: a.lower()
SortKey(name) == LowerRank(name)

RECURSIVE SortByLower(_)
SortByLower(S) ==
    IF S = {} THEN <<>>
    ELSE LET m == CHOOSE x \in S : \A y \in S : SortKey(x) <= SortKey(y)
         IN  <<m>> \o SortByLower(S \ {m})

list_directory(h, path, reqPath, io) ==
    LET h1 == FsCall(h, "listdir") IN
    IF ~CanList(path) THEN send_error(h1, 404, reqPath, io)
    ELSE LET listing == SortByLower(listdir(path))
             page == [i \in 1..Len(listing) |->
                        IF isdir(OsJoin(path, listing[i]))
                        THEN Append(listing[i], "/") ELSE listing[i]]
             h2 == send_response(h1, 200)
             h3 == send_header(h2, "Content-type", <<"text/html">>)
             h4 == send_header(h3, "Content-Length", <<Len(page)>>)
             h5 == end_headers(h4, reqPath, io)
         IN  IF h5.exc # "none" THEN h5 ELSE WriteBody(h5, page, io)

\* ------------------------------------------------- do_GET (src/server.py)
\* the 206 branch, after the range was found satisfiable
serve_range(h, path, reqPath, r, io) ==
    LET h1 == log_transfer(h, reqPath, "range-start", Some(r.start),
                           IF r.end # 0 THEN Some(r.end) ELSE None)
        h2 == send_response(h1, 206)
        h3 == send_header(h2, "Content-Range", <<r.start, r.end, fileLen>>)
        h4 == send_header(h3, "Content-Length", <<r.end - r.start + 1>>)
        h5 == send_header(h4, "Accept-Ranges", <<"bytes">>)
        h6 == end_headers(h5, reqPath, io)
        h7 == IF h6.exc # "none" THEN h6
              ELSE write_read(h6, ReadAt(r.start, r.end - r.start + 1), io)
    IN  IF h7.exc # "none" THEN h7
        ELSE log_transfer(h7, path, "range-complete", Some(r.start), Some(r.end))

\* the 200 branch submitting its start event after the headers were written
serve_full_lateStart(h, path, reqPath, io) ==
    LET h2 == send_response(h, 200)
        h3 == IF splitext_ext(path) \in DOWNLOAD_EXTENSIONS
              THEN send_header(h2, "Content-Disposition", basename(path))
              ELSE h2
        h4 == send_header(h3, "Content-Type", <<MimeType(path)>>)
        h5 == send_header(h4, "Content-Length", <<fileLen>>)
        h6 == send_header(h5, "Accept-Ranges", <<"bytes">>)
        h7 == end_headers(h6, reqPath, io)
        h1 == IF h7.exc # "none" THEN h7
              ELSE log_transfer(h7, path, "start", None, None)
        h8 == IF h1.exc # "none" THEN h1 ELSE copyfile(h1, ReadAt(0, -1), io)
    IN  IF h8.exc # "none" THEN h8
        ELSE log_transfer(h8, path, "complete", None, None)

\* the 200 branch
serve_full(h, path, reqPath, io) ==
    LET h1 == log_transfer(h, path, "start", None, None)
        h2 == send_response(h1, 200)
        h3 == IF splitext_ext(path) \in DOWNLOAD_EXTENSIONS
              THEN send_header(h2, "Content-Disposition", basename(path))
              ELSE h2
        h4 == send_header(h3, "Content-Type", <<MimeType(path)>>)
        h5 == send_header(h4, "Content-Length", <<fileLen>>)
        h6 == send_header(h5, "Accept-Ranges", <<"bytes">>)
        h7 == end_headers(h6, reqPath, io)
        h8 == IF h7.exc # "none" THEN h7 ELSE copyfile(h7, ReadAt(0, -1), io)
    IN  IF h8.exc # "none" THEN h8
        ELSE log_transfer(h8, path, "complete", None, None)

\* the suite of the try statement without the return after the 416
try_suite_noReturn(h, path, reqPath, pr, io) ==
    LET h1 == FsCall(h, "open") IN
    IF ~CanOpen(path) THEN [h1 EXCEPT !.exc = "OSError"]
    ELSE IF pr.start # None \/ pr.end # None
         THEN LET r == ResolveRange(pr.start, pr.end, fileLen)
                  h2 == IF ~r.sat THEN send_error(h1, 416, reqPath, io) ELSE h1
              IN  IF h2.exc # "none" THEN h2
                  ELSE serve_range(h2, path, reqPath, r, io)
         ELSE serve_full(h1, path, reqPath, io)

\* the suite of the try statement
try_suite(h, path, reqPath, pr, io) ==
    LET h1 == FsCall(h, "open") IN
    IF ~CanOpen(path) THEN [h1 EXCEPT !.exc = "OSError"]
    ELSE IF pr.start # None \/ pr.end # None
         THEN LET r == ResolveRange(pr.start, pr.end, fileLen) IN
              IF ~r.sat THEN send_error(h1, 416, reqPath, io)
              ELSE serve_range(h1, path, reqPath, r, io)
         ELSE serve_full(h1, path, reqPath, io)

\* the try statement with its two except clauses
serve_file(h, path, reqPath, pr, io) ==
    LET t == try_suite(h, path, reqPath, pr, io) IN
    IF t.exc = "SSLEOFError"
    THEN log_transfer([t EXCEPT !.exc = "none"], path, "failed", None, None)
    ELSE IF t.exc = "OSError"
    THEN send_error([t EXCEPT !.exc = "none"], 404, reqPath, io)
    ELSE t

handle_GET(reqPath, range_header, io) ==
    LET path == translate_path(reqPath) IN
    IF path = <<>> THEN send_error(H0, 404, reqPath, io)
    ELSE LET pr == ParseRange(range_header) IN
         IF ~pr.ok THEN send_error(H0, 400, reqPath, io)
         ELSE LET h1 == FsCall(H0, "isdir") IN
              IF isdir(path)
              THEN LET h2 == FsCall(h1, "listdir") IN
                   IF ~CanList(path) THEN [h2 EXCEPT !.exc = "OSError"]
                   ELSE IF IndexHtml \in listdir(path)
                   THEN serve_file(h2, OsJoin(path, IndexHtml), reqPath, pr, io)
                   ELSE list_directory(h2, path, reqPath, io)
              ELSE serve_file(h1, path, reqPath, pr, io)

\* ------------------------------------------------- do_GET (src/serve/server.py)
\* the earlier handler: the range is parsed and logged before the token is
\* looked at; IndexError and UnboundLocalError are not caught anywhere
EndsWithHtml(path) == Len(path) > 0 /\ path[Len(path)] = ".html"

\* ResolveRangeLegacy keeping an end beyond the file
ResolveRangeLegacy_noClamp(start, end, st_size) ==
    LET end1 == IF end = None \/ end[1] = 0 THEN st_size - 1 ELSE end[1]
    IN  [sat |-> ~(start > st_size \/ start > end1),
         start |-> start, end |-> end1]

\* "if not end or end >= fs.st_size: end = fs.st_size - 1" and the 416 test
ResolveRangeLegacy(start, end, st_size) ==
    LET end1 == IF end = None \/ end[1] = 0 \/ end[1] >= st_size
                THEN st_size - 1 ELSE end[1]
    IN  [sat |-> ~(start > st_size \/ start > end1),
         start |-> start, end |-> end1]

\* the second try statement, entered with f open
legacy_stream(h, path, reqPath, range, io) ==
    LET t == IF range # None
             THEN LET r == ResolveRangeLegacy(range[1].start, range[1].end, fileLen)
                  IN  IF ~r.sat THEN send_error(h, 416, reqPath, io)
                      ELSE LET h2 == send_response(h, 206)
                               h3 == send_header(h2, "Content-Range",
                                                 <<r.start, r.end, fileLen>>)
                               h4 == send_header(h3, "Content-Length",
                                                 <<r.end - r.start + 1>>)
                               h5 == send_header(h4, "Accept-Ranges", <<"bytes">>)
                               h6 == end_headers(h5, reqPath, io)
                               h7 == IF h6.exc # "none" THEN h6
                                     ELSE write_read(h6, ReadAt(r.start,
                                                     r.end - r.start + 1), io)
                           IN  IF h7.exc # "none" THEN h7
                               ELSE log_transfer(h7, path, "range-complete",
                                                 Some(r.start), Some(r.end))
             ELSE LET h2 == send_response(h, 200)
                      h3 == send_header(h2, "Content-Length", <<fileLen>>)
                      h4 == send_header(h3, "Accept-Ranges", <<"bytes">>)
                      h5 == end_headers(h4, reqPath, io)
                      h6 == IF h5.exc # "none" THEN h5
                            ELSE copyfile(h5, ReadAt(0, -1), io)
                  IN  IF h6.exc # "none" THEN h6
                      ELSE log_transfer(h6, path, "complete", None, None)
    IN  IF t.exc = "SSLEOFError"
        THEN log_transfer([t EXCEPT !.exc = "none"], path, "failed", None, None)
        ELSE t

\* everything after the range header was parsed; range is None or
\* Some([start, end])
legacy_after_range(h, path, reqPath, range, io) ==
    IF path = <<>> THEN send_error(h, 404, reqPath, io)
    ELSE LET h1 == FsCall(h, "isdir") IN
         IF isdir(path)
         THEN LET h2 == FsCall(h1, "listdir") IN
              IF ~CanList(path) THEN [h2 EXCEPT !.exc = "OSError"]
              ELSE IF IndexHtml \in listdir(path)
              THEN [send_header(h2, "Content-Type", <<"text/html">>)
                        EXCEPT !.exc = "UnboundLocalError"]
              ELSE list_directory(h2, path, reqPath, io)
         ELSE LET h2 == IF EndsWithHtml(path)
                        THEN send_header(h1, "Content-Type", <<"text/html">>)
                        ELSE h1
                  h3 == IF range = None
                        THEN log_transfer(h2, path, "start", None, None)
                        ELSE h2
                  h4 == FsCall(h3, "open")
              IN  IF ~CanOpen(path) THEN send_error(h4, 404, reqPath, io)
                  ELSE legacy_stream(h4, path, reqPath, range, io)

legacy_GET(reqPath, range_header, io) ==
    LET path == translate_path(reqPath) IN
    IF range_header = <<>>
    THEN legacy_after_range(H0, path, reqPath, None, io)
    ELSE LET eq == Split(range_header, "=") IN
         IF Len(eq) < 2 THEN [H0 EXCEPT !.exc = "IndexError"]
         ELSE LET parts == Split(eq[2], "-") IN
              IF ~IsInt(parts[1]) THEN send_error(H0, 400, reqPath, io)
              ELSE IF Len(parts) < 2 THEN [H0 EXCEPT !.exc = "IndexError"]
              ELSE IF parts[2] # <<>> /\ ~IsInt(parts[2])
              THEN send_error(H0, 400, reqPath, io)
              ELSE LET start == IntOf(parts[1])
                       end == IF parts[2] # <<>> THEN Some(IntOf(parts[2]))
                              ELSE None
                       h1 == log_transfer(H0, reqPath, "range-start",
                                 Some(start),
                                 IF end # None /\ end[1] # 0 THEN end ELSE None)
                   IN  legacy_after_range(h1, path, reqPath,
                           Some([start |-> start, end |-> end]), io)

\* ------------------------------------------------- requests
\* a handler instance is built for one request and handles that request only
Workers == {"w1", "w2"}

P(w) == <<"/", w>>

\* request targets: files, directories, missing and unreadable resources
\* under both roots, with and without the token
HandlerPaths ==
    {P("tok") \o P("a"), P("tok") \o <<"/">>, P("tok") \o P("nofile"),
     P("bad") \o P("a"), P("bad") \o P("nofile"), P("nofile"),
     P("tok") \o P("d"), P("tok") \o P("locked"), P("tok") \o P("noperm"),
     P("tok") \o P("resources") \o P("a"),
     P("tok") \o <<"/", ".", ".">> \o <<"/", "config", ".json">>,
     P("tok") \o <<"/", "a", ".zip">>}

Digit(n) == <<DigitSyms[n + 1]>>

Bounds == {None} \cup {Some(n) : n \in 0..MaxNum}

BoundText(b) == IF b = None THEN <<>> ELSE Digit(b[1])

\* "bytes=<start>-<end>", either bound possibly missing
RangeHdr(start, end) ==
    <<"bytes", "=">> \o BoundText(start) \o <<"-">> \o BoundText(end)

RangeHeaders ==
    {<<>>}
    \cup {RangeHdr(s, e) : s \in Bounds, e \in Bounds}
    \cup {<<"invalid_range_format">>,
          <<"bytes", "=", "x", "-", "1">>,
          <<"bytes", "=", "0", "-", "x">>,
          <<"bytes", "=", "1">>,
          <<"bytes", "=">>,
          <<"bytes", "=", "0", "-", "1", "=">>}

NoFail == [failAt |-> "none", kind |-> "none"]

IOs == {NoFail}
       \cup [failAt : {"headers", "body"}, kind : {"SSLEOFError", "OSError"}]
       \cup {[failAt |-> "read", kind |-> "OSError"]}

Idle == [done |-> FALSE, handler |-> "none", path |-> <<>>, range |-> <<>>,
         io |-> NoFail, res |-> H0]

\* ------------------------------------------------- threads
\* the threads that use the transfer log: the main thread and one thread
\* per log_transfer call (the k-th call of the request thread w)
Free == [t |-> "none", w |-> "none", k |-> 0]
MainThread == [t |-> "main", w |-> "none", k |-> 0]
UnitOf(w, k) == [t |-> "unit", w |-> w, k |-> k]

\* the transfer log is not part of the request specifications
LogOff ==
    /\ lock = Free
    /\ conn = "None"
    /\ store = <<>>
    /\ unit = <<>>
    /\ wk = <<>>
    /\ main = <<>>
    /\ shutdown_in_progress = FALSE

Init ==
    /\ LogOff
    /\ tpIn = <<>>
    /\ tpDone = FALSE
    /\ tpOut = <<>>
    /\ fileLen \in 0..MaxLen
    /\ hasIndex \in BOOLEAN
    /\ exch = [w \in Workers |-> Idle]
    /\ boot = <<>>

do_GET(w, reqPath, range_header, io) ==
    /\ ~exch[w].done
    /\ exch' = [exch EXCEPT ![w] =
                  [done |-> TRUE, handler |-> "server", path |-> reqPath,
                   range |-> range_header, io |-> io,
                   res |-> handle_GET(reqPath, range_header, io)]]
    /\ UNCHANGED <<tpIn, tpDone, tpOut, fileLen, hasIndex, boot>>
    /\ UNCHANGED logVars

do_GET_legacy(w, reqPath, range_header, io) ==
    /\ ~exch[w].done
    /\ exch' = [exch EXCEPT ![w] =
                  [done |-> TRUE, handler |-> "serve", path |-> reqPath,
                   range |-> range_header, io |-> io,
                   res |-> legacy_GET(reqPath, range_header, io)]]
    /\ UNCHANGED <<tpIn, tpDone, tpOut, fileLen, hasIndex, boot>>
    /\ UNCHANGED logVars

\* one worker, every request and every transport failure
Next ==
    \E reqPath \in HandlerPaths, range_header \in RangeHeaders, io \in IOs :
        \/ do_GET("w1", reqPath, range_header, io)
        \/ do_GET_legacy("w1", reqPath, range_header, io)

Spec == Init /\ [][Next]_vars

\* two workers answering a client that probes for the token
OraclePaths ==
    {P("bad") \o P("nofile"), P("nofile"), P("tok") \o P("nofile"),
     P("tok") \o P("a")}

NextOracle ==
    \E w \in Workers, reqPath \in OraclePaths, range_header \in RangeHeaders :
        do_GET(w, reqPath, range_header, NoFail)

SpecOracle == Init /\ [][NextOracle]_vars

\* ------------------------------------------------- translate_path alone
PathAlphabet == {"/", ".", "%2e", "%2f", "?", "tok", "resources", "a"}

InitPath ==
    /\ LogOff
    /\ tpIn \in SeqsUpTo(PathAlphabet, MaxPathLen)
    /\ tpDone = FALSE
    /\ tpOut = <<>>
    /\ fileLen = 0
    /\ hasIndex = FALSE
    /\ exch = <<>>
    /\ boot = <<>>

Translate ==
    /\ ~tpDone
    /\ tpDone' = TRUE
    /\ tpOut' = translate_path(tpIn)
    /\ UNCHANGED <<tpIn, fileLen, hasIndex, exch, boot>>
    /\ UNCHANGED logVars

NextPath == Translate

SpecPath == InitPath /\ [][NextPath]_vars

\* ------------------------------------------------- the transfer log
\* Lock.acquire: a non-reentrant lock, taken only when nobody holds it
CanAcquire_noLock(t) == TRUE

CanAcquire(t) == lock = Free

\* an exception that leaves "with self.lock" without releasing the lock
ReleaseOnError_leak(t) == t

\* an exception leaving "with self.lock" releases the lock
ReleaseOnError(t) == Free

\* Thread.start() has returned for the thread of a log_transfer call
ThreadStarted_joined(u) ==
    IF u \in DOMAIN unit THEN unit[u].pc \in {"done", "died", "reported"}
    ELSE FALSE

ThreadStarted(u) == u \in DOMAIN unit

\* "if self.conn is None" of _log_transfer
ConnIsNone_never(c) == FALSE

ConnIsNone(c) == c = "None"

\* conn.commit() without the commit
Committed_dropped(rows, tx) == rows

\* a commit that replaces the table's rows by the open transaction
Committed_replace(rows, tx) == tx

\* conn.commit(): the open transaction becomes durable
Committed(rows, tx) == rows (+) tx

\* the body of close_connection without "self.conn = None"
CloseBody_noReset(c, st) ==
    IF c # "None"
    THEN [conn |-> c,
          store |-> [st EXCEPT !.closes = @ + 1, !.tx = EmptyBag]]
    ELSE [conn |-> c, store |-> st]

\* the body of close_connection: conn.close() drops the open transaction
CloseBody(c, st) ==
    IF c # "None"
    THEN [conn |-> "None",
          store |-> [st EXCEPT !.closes = @ + 1, !.tx = EmptyBag]]
    ELSE [conn |-> c, store |-> st]

\* the runs of the log specification happen within one second of the clock
\* (no reading of the clock differs from the one before)
\* the requests of the log specification: /<token>/a, in full by one client
\* and as the range bytes=0- by the other
LogPath == P("tok") \o P("a")
LogRange == [w \in Workers |-> IF w = "w1" THEN <<>> ELSE RangeHdr(Some(0), None)]

\* the steps of a request up to and including its next log_transfer call,
\* or up to its end
RECURSIVE NextStop(_, _)
NextStop(trace, n) ==
    IF n >= Len(trace) THEN Len(trace)
    ELSE IF trace[n + 1] = "log" THEN n
         ELSE NextStop(trace, n + 1)

\* the number of log_transfer calls among the first n steps of a request
RECURSIVE LogCalls(_, _)
LogCalls(trace, n) ==
    IF n = 0 THEN 0
    ELSE LogCalls(trace, n - 1) + (IF trace[n] = "log" THEN 1 ELSE 0)

\* log_transfer has returned for every call the request thread w has made
Returned(w) ==
    \A k \in 1..LogCalls(wk[w].res.trace, wk[w].at) : ThreadStarted(UnitOf(w, k))

NotStarted == [on |-> FALSE, res |-> H0, at |-> 0]

\* the state in FileTransferLog.__init__ after open_connection, for either
\* entry point (src/server.py run as a script, or src/main.py)
InitLog ==
    /\ tpIn = <<>>
    /\ tpDone = FALSE
    /\ tpOut = <<>>
    /\ fileLen = 1
    /\ hasIndex = FALSE
    /\ exch = <<>>
    /\ boot = <<>>
    /\ lock = Free
    /\ conn = "open"
    /\ store = [table |-> FALSE, rows |-> EmptyBag, tx |-> EmptyBag,
                closes |-> 0]
    /\ unit = <<>>
    /\ wk = [w \in Workers |-> NotStarted]
    /\ main = [pc |-> "init_db", ret |-> "none", calls |-> 0]
    /\ shutdown_in_progress = FALSE

\* init_db: "with self.lock"
init_db_enter ==
    /\ main.pc = "init_db"
    /\ CanAcquire(MainThread)
    /\ lock' = MainThread
    /\ main' = [main EXCEPT !.pc = "init_db_held"]
    /\ UNCHANGED <<conn, store, unit, wk, shutdown_in_progress>>
    /\ UNCHANGED reqVars

\* init_db: CREATE TABLE IF NOT EXISTS, commit, release; the module body and
\* run() then reach serve_forever
init_db ==
    /\ main.pc = "init_db_held"
    /\ ~ConnIsNone(conn)
    /\ store' = [store EXCEPT !.table = TRUE]
    /\ lock' = Free
    /\ main' = [main EXCEPT !.pc = "serving"]
    /\ UNCHANGED <<conn, unit, wk, shutdown_in_progress>>
    /\ UNCHANGED reqVars

\* ThreadingMixIn.process_request: a request thread runs do_GET, up to its
\* first log_transfer call
process_request(w, range_header) ==
    /\ main.pc = "serving"
    /\ ~wk[w].on
    /\ LET res == handle_GET(LogPath, range_header, NoFail)
       IN  wk' = [wk EXCEPT ![w] =
                    [on |-> TRUE, at |-> NextStop(res.trace, 0), res |-> res]]
    /\ UNCHANGED <<lock, conn, store, unit, main, shutdown_in_progress>>
    /\ UNCHANGED reqVars

\* the request thread calls log_transfer: a thread is created and started
Submit(w) ==
    /\ wk[w].on
    /\ wk[w].at < Len(wk[w].res.trace)
    /\ wk[w].res.trace[wk[w].at + 1] = "log"
    /\ Returned(w)
    /\ LET k == LogCalls(wk[w].res.trace, wk[w].at) + 1
       IN  unit' = unit @@ (UnitOf(w, k) :>
                       [pc |-> "new", ev |-> wk[w].res.events[k], ts |-> 0,
                        closedAtCall |-> (conn = "None"), late |-> FALSE])
    /\ wk' = [wk EXCEPT ![w].at = @ + 1]
    /\ UNCHANGED <<lock, conn, store, main, shutdown_in_progress>>
    /\ UNCHANGED reqVars

\* the request thread writes its response, up to its next log_transfer call
Stream(w) ==
    /\ wk[w].on
    /\ wk[w].at < Len(wk[w].res.trace)
    /\ wk[w].res.trace[wk[w].at + 1] # "log"
    /\ Returned(w)
    /\ wk' = [wk EXCEPT ![w].at = NextStop(wk[w].res.trace, @)]
    /\ UNCHANGED <<lock, conn, store, unit, main, shutdown_in_progress>>
    /\ UNCHANGED reqVars

StoreFailed == {"reported"}

\* the clock in whole seconds, as strftime("%Y-%m-%d %H:%M:%S") keeps it:
\* the latest reading so far, 1 before any reading
Clock ==
    LET read == {unit[v].ts : v \in DOMAIN unit} \cup {1}
    IN  CHOOSE t \in read : \A x \in read : x <= t

\* datetime.now(): the second of the latest reading, or the next one when
\* the clock has ticked since
Now(tick) == Clock + tick

\* _log_transfer: timestamp = datetime.now().strftime(...), the first
\* statement of the new thread
Stamp(u, tick) ==
    /\ unit[u].pc = "new"
    /\ unit' = [unit EXCEPT ![u].pc = "stamped", ![u].ts = Now(tick)]
    /\ UNCHANGED <<lock, conn, store, wk, main, shutdown_in_progress>>
    /\ UNCHANGED reqVars

\* the row _log_transfer inserts for its event
Row(u) == [timestamp |-> unit[u].ts, event |-> unit[u].ev]

\* _log_transfer: "with self.lock"
Acquire(u) ==
    /\ unit[u].pc = "stamped"
    /\ CanAcquire(u)
    /\ lock' = u
    /\ unit' = [unit EXCEPT ![u].pc = "held",
                   ![u].late = \E v \in DOMAIN unit : unit[v].pc \in StoreFailed]
    /\ UNCHANGED <<conn, store, wk, main, shutdown_in_progress>>
    /\ UNCHANGED reqVars

\* _log_transfer: the check of self.conn and conn.cursor(); the RuntimeError
\* leaves the with block and is not a sqlite3.Error, so it ends the thread
CheckConn(u) ==
    /\ unit[u].pc = "held"
    /\ IF ConnIsNone(conn)
       THEN /\ unit' = [unit EXCEPT ![u].pc = "died"]
            /\ lock' = ReleaseOnError(u)
       ELSE /\ unit' = [unit EXCEPT ![u].pc = "cursor"]
            /\ UNCHANGED lock
    /\ UNCHANGED <<conn, store, wk, main, shutdown_in_progress>>
    /\ UNCHANGED reqVars

\* _log_transfer: cursor.execute(INSERT ...), which may raise sqlite3.Error;
\* "except sqlite3.Error" prints the error after the lock is released
Execute(u, ok) ==
    /\ unit[u].pc = "cursor"
    /\ IF ok
       THEN /\ store' = [store EXCEPT !.tx = @ (+) SetToBag({Row(u)})]
            /\ unit' = [unit EXCEPT ![u].pc = "inserted"]
            /\ UNCHANGED lock
       ELSE /\ unit' = [unit EXCEPT ![u].pc = "reported"]
            /\ lock' = ReleaseOnError(u)
            /\ UNCHANGED store
    /\ UNCHANGED <<conn, wk, main, shutdown_in_progress>>
    /\ UNCHANGED reqVars

\* _log_transfer: conn.commit(); a failed commit leaves the transaction open
\* (database busy) or rolls it back (I/O error, disk full)
Commit(u, outcome) ==
    /\ unit[u].pc = "inserted"
    /\ store' = [store EXCEPT
                   !.rows = IF outcome = "ok" THEN Committed(@, store.tx) ELSE @,
                   !.tx = IF outcome = "busy" THEN @ ELSE EmptyBag]
    /\ unit' = [unit EXCEPT ![u].pc = IF outcome = "ok" THEN "done" ELSE "reported"]
    /\ lock' = IF outcome = "ok" THEN Free ELSE ReleaseOnError(u)
    /\ UNCHANGED <<conn, wk, main, shutdown_in_progress>>
    /\ UNCHANGED reqVars

\* serve_forever ends with an exception: the finally of run() starts
ServeForeverRaises ==
    /\ main.pc = "serving"
    /\ main' = [main EXCEPT !.pc = "run_finally"]
    /\ UNCHANGED <<lock, conn, store, unit, wk, shutdown_in_progress>>
    /\ UNCHANGED reqVars

\* httpd.server_close(): joins the request threads
server_close ==
    /\ main.pc = "run_finally"
    /\ \A w \in Workers : wk[w].on => wk[w].at = Len(wk[w].res.trace)
    /\ main' = [main EXCEPT !.pc = "run_close"]
    /\ UNCHANGED <<lock, conn, store, unit, wk, shutdown_in_progress>>
    /\ UNCHANGED reqVars

\* the three calls of close_connection: finally of run(), signal_handler,
\* finally of the entry point; where each call holds the lock and returns to
CloseSites == {"run_close", "h_close", "main_close"}

HeldAt ==
    [run_close |-> "run_close_held", h_close |-> "h_close_held",
     main_close |-> "main_close_held"]

ReturnTo ==
    [run_close |-> "main_finally", h_close |-> "h_exit",
     main_close |-> "exited"]

\* close_connection: "with self.lock"
close_connection_enter(site) ==
    /\ main.pc = site
    /\ CanAcquire(MainThread)
    /\ lock' = MainThread
    /\ main' = [main EXCEPT !.pc = HeldAt[site]]
    /\ UNCHANGED <<conn, store, unit, wk, shutdown_in_progress>>
    /\ UNCHANGED reqVars

\* close_connection: close the connection if there is one, release
close_connection(site) ==
    /\ main.pc = HeldAt[site]
    /\ conn' = CloseBody(conn, store).conn
    /\ store' = CloseBody(conn, store).store
    /\ lock' = Free
    /\ main' = [main EXCEPT !.pc = ReturnTo[site], !.calls = @ + 1]
    /\ UNCHANGED <<unit, wk, shutdown_in_progress>>
    /\ UNCHANGED reqVars

\* the value of shutdown_in_progress the entry point reads: src/main.py
\* reads the name it imported before any signal, src/server.py the global
EntryFlag(entry) ==
    IF entry = "main.py" THEN FALSE ELSE shutdown_in_progress

\* the finally of the entry point that was run
main_finally(entry) ==
    /\ main.pc = "main_finally"
    /\ main' = [main EXCEPT
                  !.pc = IF EntryFlag(entry) THEN "exited" ELSE "main_close"]
    /\ UNCHANGED <<lock, conn, store, unit, wk, shutdown_in_progress>>
    /\ UNCHANGED reqVars

\* SIGINT or SIGTERM: signal_handler runs on the main thread on top of the
\* frame it interrupts; with the flag already set it returns at once
signal_handler ==
    /\ main.pc \notin {"init_db", "init_db_held", "exited"}
    /\ IF ~shutdown_in_progress
       THEN /\ shutdown_in_progress' = TRUE
            /\ main' = [main EXCEPT !.pc = "h_close", !.ret = main.pc]
       ELSE UNCHANGED <<main, shutdown_in_progress>>
    /\ UNCHANGED <<lock, conn, store, unit, wk>>
    /\ UNCHANGED reqVars

\* sys.exit(0) in signal_handler: SystemExit unwinds the interrupted frame,
\* through the finally of run() when it interrupted serve_forever, else
\* through the finally of the entry point
sys_exit ==
    /\ main.pc = "h_exit"
    /\ main' = [main EXCEPT
                  !.ret = "none",
                  !.pc = IF main.ret = "serving" THEN "run_finally"
                         ELSE IF main.ret \in {"run_finally", "run_close"}
                              THEN "main_finally"
                              ELSE "exited"]
    /\ UNCHANGED <<lock, conn, store, unit, wk, shutdown_in_progress>>
    /\ UNCHANGED reqVars

NextLog ==
    \/ init_db_enter
    \/ init_db
    \/ \E w \in Workers : process_request(w, LogRange[w])
    \/ \E w \in Workers : Submit(w)
    \/ \E w \in Workers : Stream(w)
    \/ \E u \in DOMAIN unit : Stamp(u, 0)
    \/ \E u \in DOMAIN unit : Acquire(u)
    \/ \E u \in DOMAIN unit : CheckConn(u)
    \/ \E u \in DOMAIN unit, ok \in BOOLEAN : Execute(u, ok)
    \/ \E u \in DOMAIN unit, outcome \in {"ok", "busy", "rollback"} :
           Commit(u, outcome)
    \/ ServeForeverRaises
    \/ server_close
    \/ \E site \in CloseSites : close_connection_enter(site)
    \/ \E site \in CloseSites : close_connection(site)
    \/ \E entry \in {"server.py", "main.py"} : main_finally(entry)
    \/ signal_handler
    \/ sys_exit

SpecLog == InitLog /\ [][NextLog]_vars

\* the server while it serves, with a clock that may tick between any two
\* readings: the state after init_db, the request threads and their write
\* units
InitStamp ==
    /\ tpIn = <<>>
    /\ tpDone = FALSE
    /\ tpOut = <<>>
    /\ fileLen = 1
    /\ hasIndex = FALSE
    /\ exch = <<>>
    /\ boot = <<>>
    /\ lock = Free
    /\ conn = "open"
    /\ store = [table |-> TRUE, rows |-> EmptyBag, tx |-> EmptyBag,
                closes |-> 0]
    /\ unit = <<>>
    /\ wk = [w \in Workers |-> NotStarted]
    /\ main = [pc |-> "serving", ret |-> "none", calls |-> 0]
    /\ shutdown_in_progress = FALSE

NextStamp ==
    \/ \E w \in Workers : process_request(w, LogRange[w])
    \/ \E w \in Workers : Submit(w)
    \/ \E w \in Workers : Stream(w)
    \/ \E u \in DOMAIN unit, tick \in {0, 1} : Stamp(u, tick)
    \/ \E u \in DOMAIN unit : Acquire(u)
    \/ \E u \in DOMAIN unit : CheckConn(u)
    \/ \E u \in DOMAIN unit, ok \in BOOLEAN : Execute(u, ok)
    \/ \E u \in DOMAIN unit, outcome \in {"ok", "busy", "rollback"} :
           Commit(u, outcome)

SpecStamp == InitStamp /\ [][NextStamp]_vars

\* what the main thread does by itself once it can: the calls of the module
\* body, of run() and its finally, of signal_handler and of the entry point
MainStep ==
    \/ init_db_enter
    \/ init_db
    \/ server_close
    \/ \E site \in CloseSites : close_connection_enter(site)
    \/ \E site \in CloseSites : close_connection(site)
    \/ \E entry \in {"server.py", "main.py"} : main_finally(entry)
    \/ sys_exit

\* the steps of the threads log_transfer has started
UnitStep ==
    \E u \in DOMAIN unit :
        \/ Stamp(u, 0)
        \/ Acquire(u)
        \/ CheckConn(u)
        \/ \E ok \in BOOLEAN : Execute(u, ok)
        \/ \E outcome \in {"ok", "busy", "rollback"} : Commit(u, outcome)

\* the steps of the request threads
RequestStep == \E w \in Workers : Submit(w) \/ Stream(w)

\* every started thread is scheduled: a thread that can take its next step
\* takes it. A request, a signal and the end of serve_forever come from
\* outside and need not happen.
SpecLogFair ==
    /\ InitLog
    /\ [][NextLog]_vars
    /\ WF_vars(MainStep)
    /\ WF_vars(UnitStep)
    /\ WF_vars(RequestStep)

\* ------------------------------------------------- start-up
\* config.json: the file is missing, is not JSON, holds JSON that is not an
\* object, or holds an object; url and port are absent (None) or present,
\* possibly with an empty text or 0; the other keys are present or not
ConfigUrls == {None, Some(""), Some("https://example.com")}
ConfigPorts == {None} \cup {Some(n) : n \in 0..MaxNum}

NoObject == [url |-> None, port |-> None, certfile |-> FALSE,
             keyfile |-> FALSE, download_extensions |-> FALSE]

ConfigFiles ==
    [kind : {"missing", "invalid", "not_object"}, json : {NoObject}]
    \cup [kind : {"object"},
          json : [url : ConfigUrls, port : ConfigPorts, certfile : BOOLEAN,
                  keyfile : BOOLEAN, download_extensions : BOOLEAN]]

\* config.get("url", False) or "https://localhost", with no default
ConfigUrl_noDefault(json) ==
    IF json.url = None THEN "False" ELSE json.url[1]

\* config.get("url", False) or "https://localhost"
ConfigUrl(json) ==
    IF json.url = None THEN "https://localhost"
    ELSE IF json.url[1] = "" THEN "https://localhost"
    ELSE json.url[1]

\* config.get("port", False) or 443
ConfigPort(json) ==
    IF json.port = None THEN 443
    ELSE IF json.port[1] = 0 THEN 443
    ELSE json.port[1]

InitBoot ==
    /\ LogOff
    /\ tpIn = <<>>
    /\ tpDone = FALSE
    /\ tpOut = <<>>
    /\ fileLen = 0
    /\ hasIndex = FALSE
    /\ exch = <<>>
    /\ boot \in [file : ConfigFiles, pc : {"load"}, exit : {"none"},
                 done : {<<>>}, URL : {None}, PORT : {None}]

BootStep(b) ==
    /\ boot' = b
    /\ UNCHANGED <<tpIn, tpDone, tpOut, fileLen, hasIndex, exch>>
    /\ UNCHANGED logVars

\* open("config.json") and json.load, with the two except clauses
LoadConfig ==
    /\ boot.pc = "load"
    /\ BootStep(
         IF boot.file.kind = "missing"
         THEN [boot EXCEPT !.pc = "exited",
                           !.exit = "Error: Configuration file not found."]
         ELSE IF boot.file.kind = "invalid"
         THEN [boot EXCEPT !.pc = "exited",
                   !.exit = "Error: Configuration file is not valid JSON."]
         ELSE [boot EXCEPT !.pc = "open_log"])

\* file_transfer_log = FileTransferLog("database.db")
OpenLog ==
    /\ boot.pc = "open_log"
    /\ BootStep([boot EXCEPT !.pc = "values", !.done = Append(@, "log")])

\* URL, PORT, then the keys read with config[...]: a value that is not an
\* object has no get, a missing key raises KeyError
ReadValues ==
    /\ boot.pc = "values"
    /\ BootStep(
         IF boot.file.kind = "not_object"
         THEN [boot EXCEPT !.pc = "exited", !.exit = "AttributeError"]
         ELSE LET j == boot.file.json
                  b == [boot EXCEPT !.URL = Some(ConfigUrl(j)),
                                    !.PORT = Some(ConfigPort(j))]
              IN  IF j.certfile /\ j.keyfile /\ j.download_extensions
                  THEN [b EXCEPT !.pc = "token"]
                  ELSE [b EXCEPT !.pc = "exited", !.exit = "KeyError"])

\* token = token_urlsafe(48)
MakeToken ==
    /\ boot.pc = "token"
    /\ BootStep([boot EXCEPT !.pc = "signals", !.done = Append(@, "token")])

\* signal.signal(SIGINT, ...), signal.signal(SIGTERM, ...)
RegisterSignals ==
    /\ boot.pc = "signals"
    /\ BootStep([boot EXCEPT !.pc = "ready", !.done = Append(@, "signals")])

NextBoot ==
    \/ LoadConfig
    \/ OpenLog
    \/ ReadValues
    \/ MakeToken
    \/ RegisterSignals

SpecBoot == InitBoot /\ [][NextBoot]_vars

\* the first segment of the path component of a request target, and what
\* follows it
FirstSegment(url) == Split1(LStrip(UrlPath(url), "/"), "/")[1]

Remainder(url) ==
    LET parts == Split1(Strip(UrlPath(url), "/"), "/")
    IN  IF Len(parts) = 2 THEN parts[2] ELSE <<>>

\* the root a remainder selects: "resources" when its first decoded segment
\* is that word, the public root otherwise
SelectedRoot(url) ==
    IF Split1(Unquote(Remainder(url)), "/")[1] = <<"resources">>
    THEN ResourcesRoot ELSE PublicRoot

\* C1: whenever the first segment is the token, the path translate_path
\* returns lies inside the selected root, whatever the remainder is.
C1_ConfinedToRoot ==
    (tpDone /\ FirstSegment(tpIn) = token)
        => Inside(tpOut, SelectedRoot(tpIn))

IsStatusItem(x) == x.t = "status"
IsHeaderItem(x) == x.t = "header"
IsBodyItem(x) == x.t = "body"

Statuses(res) == SelectSeq(res.wire, IsStatusItem)

\* the status line the client reads first, 0 when none arrived
StatusOf(res) == IF Statuses(res) = <<>> THEN 0 ELSE Statuses(res)[1].code

HeadersOf(res) == SelectSeq(res.wire, IsHeaderItem)

\* the values of the headers called name, in order
HeaderVals(res, name) ==
    LET hs == HeadersOf(res)
        Named(x) == x.name = name
        sel == SelectSeq(hs, Named)
    IN  [i \in 1..Len(sel) |-> sel[i].val]

\* the body bytes, <<>> when no body was written
BodyOf(res) ==
    LET bs == SelectSeq(res.wire, IsBodyItem)
    IN  IF bs = <<>> THEN <<>> ELSE bs[1].data

Handled(e) == e.done /\ e.handler = "server"

\* the request names a file that can be opened, directly or as the index
\* document of the directory it names
TargetOf(e) ==
    LET fp == translate_path(e.path) IN
    IF isdir(fp) /\ CanList(fp) /\ IndexHtml \in listdir(fp)
    THEN OsJoin(fp, IndexHtml) ELSE fp

ReadableFile(e) == FirstSegment(e.path) = token /\ CanOpen(TargetOf(e))

DirectFile(e) ==
    /\ FirstSegment(e.path) = token
    /\ ~isdir(translate_path(e.path))
    /\ CanOpen(translate_path(e.path))

Partial(res, start, end) ==
    /\ StatusOf(res) = 206
    /\ HeaderVals(res, "Content-Range") = <<<<start, end, fileLen>>>>
    /\ HeaderVals(res, "Content-Length") = <<<<end - start + 1>>>>
    /\ BodyOf(res) = SubSeq(FileBytes, start + 1, end + 1)
    /\ Len(BodyOf(res)) = end - start + 1

\* C3: a wrong or missing token and a right token naming a missing resource
\* are answered alike (same status, same headers) when the two requests
\* carry the same Range header and the same path after the first segment.
NoSuchResource(e) ==
    /\ FirstSegment(e.path) = token
    /\ Normpath(translate_path(e.path)) \notin Dirs \cup RegularFiles

C3_NoTokenOracle ==
    \A w1 \in Workers, w2 \in Workers :
        (/\ Handled(exch[w1]) /\ Handled(exch[w2])
         /\ FirstSegment(exch[w1].path) # token
         /\ NoSuchResource(exch[w2])
         /\ Remainder(exch[w1].path) = Remainder(exch[w2].path)
         /\ exch[w1].range = exch[w2].range)
        => /\ Statuses(exch[w1].res) = Statuses(exch[w2].res)
           /\ HeadersOf(exch[w1].res) = HeadersOf(exch[w2].res)

\* C4: no transfer event handed to the log carries the token in its path.
HasToken(s) == \E k \in 1..Len(s) : s[k] = token[1]

C4_TokenNeverLogged ==
    \A w \in Workers :
        Handled(exch[w]) =>
            \A i \in 1..Len(exch[w].res.events) :
                ~HasToken(exch[w].res.events[i].path)

\* C5: "bytes=start-end" with 0 <= start <= end <= L-1 on a readable file is
\* answered 206 with Content-Range start-end/L, Content-Length end-start+1
\* and exactly the bytes start..end of the file.
C5_RangeServed ==
    \A w \in Workers, s \in 0..MaxNum, n \in 0..MaxNum :
        (/\ Handled(exch[w]) /\ exch[w].io = NoFail /\ ReadableFile(exch[w])
         /\ exch[w].range = RangeHdr(Some(s), Some(n))
         /\ s <= n /\ n <= fileLen - 1)
        => Partial(exch[w].res, s, n)

C5_Witness ==
    \E w \in Workers :
        /\ Handled(exch[w]) /\ ReadableFile(exch[w])
        /\ exch[w].range = RangeHdr(Some(0), Some(0))
        /\ fileLen = MaxLen
        /\ Partial(exch[w].res, 0, 0)
        /\ BodyOf(exch[w].res) = <<1>>

\* C6: on a readable file of length L (L = 0 included) a range whose start is
\* beyond L-1, or beyond its own end, is answered 416.
C6_Unsatisfiable ==
    \A w \in Workers, s \in 0..MaxNum, b \in Bounds :
        (/\ Handled(exch[w]) /\ exch[w].io = NoFail /\ ReadableFile(exch[w])
         /\ exch[w].range = RangeHdr(Some(s), b)
         /\ (s > fileLen - 1 \/ (b # None /\ s > b[1])))
        => StatusOf(exch[w].res) = 416

C6_Witness ==
    \E w \in Workers :
        /\ Handled(exch[w]) /\ ReadableFile(exch[w])
        /\ exch[w].range = RangeHdr(Some(2), Some(1))
        /\ fileLen = 3
        /\ StatusOf(exch[w].res) = 416
        /\ BodyOf(exch[w].res) = <<"error page">>

ServedDirectly(e) == e.done /\ e.io = NoFail /\ DirectFile(e)

\* C7 as stated: an explicit end at or beyond L is clamped to L-1, so
\* "bytes=start-end" with start inside the file is served as [start, L-1].
C7_EndClamped ==
    \A w \in Workers, s \in 0..MaxNum, n \in 0..MaxNum :
        (/\ ServedDirectly(exch[w])
         /\ exch[w].range = RangeHdr(Some(s), Some(n))
         /\ s <= fileLen - 1 /\ n >= fileLen)
        => Partial(exch[w].res, s, fileLen - 1)

\* C7 amended: only the earlier handler (src/serve/server.py) clamps such an
\* end and serves [start, L-1]; the handler of src/server.py answers 416 and
\* serves no interval.
C7_ClampedOnlyByEarlierHandler ==
    \A w \in Workers, s \in 0..MaxNum, n \in 0..MaxNum :
        (/\ ServedDirectly(exch[w])
         /\ exch[w].range = RangeHdr(Some(s), Some(n))
         /\ s <= fileLen - 1 /\ n >= fileLen)
        => /\ exch[w].handler = "serve" => Partial(exch[w].res, s, fileLen - 1)
           /\ exch[w].handler = "server"
                => /\ StatusOf(exch[w].res) = 416
                   /\ HeaderVals(exch[w].res, "Content-Range") = <<>>

C7_Witness ==
    \E w \in Workers :
        /\ ServedDirectly(exch[w]) /\ exch[w].handler = "serve"
        /\ fileLen = 2
        /\ exch[w].range = RangeHdr(Some(1), Some(4))
        /\ Partial(exch[w].res, 1, 1)

\* C8: a range whose explicit end is at or beyond L is answered 416 even
\* when its start lies inside the file.
C8_EndBeyondFile ==
    \A w \in Workers, s \in 0..MaxNum, n \in 0..MaxNum :
        (/\ Handled(exch[w]) /\ exch[w].io = NoFail /\ ReadableFile(exch[w])
         /\ exch[w].range = RangeHdr(Some(s), Some(n))
         /\ n >= fileLen)
        => StatusOf(exch[w].res) = 416

C8_Witness ==
    \E w \in Workers :
        /\ Handled(exch[w]) /\ ReadableFile(exch[w])
        /\ fileLen = 3
        /\ exch[w].range = RangeHdr(Some(1), Some(4))
        /\ StatusOf(exch[w].res) = 416
        /\ HeaderVals(exch[w].res, "Content-Range") = <<>>

\* C9 as stated: "bytes=-K" with K <= L is served as [L-K, L-1] and
\* "bytes=K-" (K inside the file) as [K, L-1], each with 206 and the bytes
\* of the interval; a suffix longer than the file is served from start 0.
C9_SuffixAndOpenEnded ==
    \A w \in Workers, k \in 0..MaxNum :
        (Handled(exch[w]) /\ exch[w].io = NoFail /\ ReadableFile(exch[w]))
        => /\ (exch[w].range = RangeHdr(None, Some(k)) /\ k <= fileLen)
                => Partial(exch[w].res, fileLen - k, fileLen - 1)
           /\ (exch[w].range = RangeHdr(Some(k), None) /\ k <= fileLen - 1)
                => Partial(exch[w].res, k, fileLen - 1)
           /\ (exch[w].range = RangeHdr(None, Some(k)) /\ k > fileLen
                                                       /\ fileLen >= 1)
                => Partial(exch[w].res, 0, fileLen - 1)

\* C9 amended: "bytes=-K" with 1 <= K <= L is served as [L-K, L-1] and
\* "bytes=K-" with K <= L-1 as [K, L-1], each with 206 and the bytes of the
\* interval; a suffix longer than a non-empty file is served as [0, L-1];
\* the empty suffix "bytes=-0" is answered 416.
C9_NonEmptySuffixAndOpenEnded ==
    \A w \in Workers, k \in 0..MaxNum :
        (Handled(exch[w]) /\ exch[w].io = NoFail /\ ReadableFile(exch[w]))
        => /\ (exch[w].range = RangeHdr(None, Some(k)) /\ 1 <= k /\ k <= fileLen)
                => Partial(exch[w].res, fileLen - k, fileLen - 1)
           /\ (exch[w].range = RangeHdr(Some(k), None) /\ k <= fileLen - 1)
                => Partial(exch[w].res, k, fileLen - 1)
           /\ (exch[w].range = RangeHdr(None, Some(k)) /\ k > fileLen
                                                       /\ fileLen >= 1)
                => Partial(exch[w].res, 0, fileLen - 1)
           /\ exch[w].range = RangeHdr(None, Some(0))
                => StatusOf(exch[w].res) = 416

C9_Witness ==
    \E w \in Workers :
        /\ Handled(exch[w]) /\ ReadableFile(exch[w])
        /\ fileLen = 3
        /\ exch[w].range = RangeHdr(None, Some(1))
        /\ Partial(exch[w].res, 2, 2)
        /\ BodyOf(exch[w].res) = <<3>>

\* C10: with a valid token, a Range header with a non-numeric bound, without
\* "=", or with both bounds absent is answered 400, and the request then
\* touches no file or directory and submits no log event.
MalformedHeaders ==
    {<<"invalid_range_format">>, <<"bytes", "=", "x", "-", "1">>,
     <<"bytes", "=", "0", "-", "x">>, RangeHdr(None, None)}

C10_MalformedIs400 ==
    \A w \in Workers :
        (/\ Handled(exch[w]) /\ exch[w].io = NoFail
         /\ FirstSegment(exch[w].path) = token
         /\ exch[w].range \in MalformedHeaders)
        => /\ StatusOf(exch[w].res) = 400
           /\ exch[w].res.events = <<>>
           /\ \A i \in 1..Len(exch[w].res.trace) :
                  exch[w].res.trace[i] \in {"headers", "body"}

\* C11: a request without Range header for a readable file of length L
\* (L = 0 included) is answered 200 with Content-Length L and the whole file.
C11_FullServed ==
    \A w \in Workers :
        (/\ Handled(exch[w]) /\ exch[w].io = NoFail /\ ReadableFile(exch[w])
         /\ exch[w].range = <<>>)
        => /\ StatusOf(exch[w].res) = 200
           /\ HeaderVals(exch[w].res, "Content-Length") = <<<<fileLen>>>>
           /\ BodyOf(exch[w].res) = FileBytes

C11_Witness ==
    \E w \in Workers :
        /\ Handled(exch[w]) /\ ReadableFile(exch[w]) /\ exch[w].range = <<>>
        /\ fileLen = MaxLen
        /\ StatusOf(exch[w].res) = 200
        /\ Len(BodyOf(exch[w].res)) = MaxLen

\* ------------------------------------------------- the events of a request
StartTypes == {"start", "range-start"}
CompleteTypes == {"complete", "range-complete"}

EventsOfType(res, types) ==
    LET T(ev) == ev.status \in types IN SelectSeq(res.events, T)

\* the position in the trace of the k-th log_transfer call
RECURSIVE LogPosFrom(_, _, _)
LogPosFrom(trace, k, i) ==
    IF i > Len(trace) THEN 0
    ELSE IF trace[i] = "log"
         THEN IF k = 1 THEN i ELSE LogPosFrom(trace, k - 1, i + 1)
         ELSE LogPosFrom(trace, k, i + 1)

LogPos(res, k) == LogPosFrom(res.trace, k, 1)

Writes == {"headers", "body"}

\* a file was delivered in full or in part
Transferred(e) ==
    /\ Handled(e) /\ ReadableFile(e) /\ e.res.exc = "none" /\ ~e.res.broken
    /\ StatusOf(e.res) \in {200, 206}

\* C12: a transfer that completes submits exactly one start-type and one
\* matching complete-type event, and for a partial transfer both events
\* carry the interval that was served as start_byte and end_byte.
C12_OnePairPerTransfer ==
    \A w \in Workers :
        Transferred(exch[w]) =>
            LET res == exch[w].res
                st == EventsOfType(res, StartTypes)
                co == EventsOfType(res, CompleteTypes)
            IN  /\ Len(st) = 1 /\ Len(co) = 1
                /\ StatusOf(res) = 200
                     => st[1].status = "start" /\ co[1].status = "complete"
                /\ StatusOf(res) = 206
                     => /\ st[1].status = "range-start"
                        /\ co[1].status = "range-complete"
                        /\ \A ev \in {st[1], co[1]} :
                             /\ ev.start_byte =
                                  Some(HeaderVals(res, "Content-Range")[1][1])
                             /\ ev.end_byte =
                                  Some(HeaderVals(res, "Content-Range")[1][2])

\* C13: within one request the start or range-start event is submitted
\* before anything is written to the client, and the complete or
\* range-complete event only after every write of the transfer succeeded.
C13_EventsBracketTheWrites ==
    \A w \in Workers :
        (Handled(exch[w]) /\ ReadableFile(exch[w])) =>
            LET res == exch[w].res IN
            \A k \in 1..Len(res.events) :
                /\ res.events[k].status \in StartTypes
                     => \A i \in 1..LogPos(res, k) : res.trace[i] \notin Writes
                /\ res.events[k].status \in CompleteTypes
                     => /\ ~res.broken
                        /\ \A i \in LogPos(res, k)..Len(res.trace) :
                               res.trace[i] \notin Writes
                        /\ \E i \in 1..LogPos(res, k) : res.trace[i] = "headers"
                        /\ BodyOf(res) # <<>>
                             => \E i \in 1..LogPos(res, k) : res.trace[i] = "body"
                        /\ Len(BodyOf(res)) =
                             (IF StatusOf(res) = 206
                              THEN HeaderVals(res, "Content-Length")[1][1]
                              ELSE fileLen)

C13_Witness ==
    \E w \in Workers :
        /\ Handled(exch[w]) /\ ReadableFile(exch[w])
        /\ exch[w].range = <<>>
        /\ fileLen > 0
        /\ exch[w].res.trace = <<"isdir", "open", "log", "headers", "body", "log">>
        /\ exch[w].res.events[1].status = "start"
        /\ exch[w].res.events[2].status = "complete"

\* C14: a transport failure while a transfer is being written ends the
\* request with a "failed" event and without an exception leaving do_GET.
C14_FailureIsLoggedNotRaised ==
    \A w \in Workers :
        (/\ Handled(exch[w]) /\ exch[w].res.broken
         /\ EventsOfType(exch[w].res, StartTypes) # <<>>)
        => /\ exch[w].res.exc = "none"
           /\ EventsOfType(exch[w].res, {"failed"}) # <<>>

\* ------------------------------------------------- the log's threads
Units == DOMAIN unit

RECURSIVE EvBag(_)
EvBag(S) ==
    IF S = {} THEN EmptyBag
    ELSE LET u == CHOOSE v \in S : TRUE
         IN  SetToBag({Row(u)}) (+) EvBag(S \ {u})

WithPc(pcs) == {u \in Units : unit[u].pc \in pcs}

HeldPcs == {"init_db_held", "run_close_held", "h_close_held", "main_close_held"}

\* a thread is inside a store operation: between taking the lock and
\* leaving the with block (for the main thread also in an interrupted frame)
InStore(t) ==
    IF t = MainThread
    THEN main.pc \in HeldPcs \/ main.ret \in HeldPcs
    ELSE unit[t].pc \in {"held", "cursor", "inserted"}

Threads == Units \cup {MainThread}

Finished(w) == wk[w].on /\ wk[w].at = Len(wk[w].res.trace)

\* C15: when no write fails, the persisted records are exactly the events
\* of the write units that have run, one record per log_transfer call, in
\* every interleaving of the units.
C15_OneRecordPerCall ==
    WithPc({"reported", "died"}) = {}
        => /\ store.rows = EvBag(WithPc({"done"}))
           /\ BagCardinality(store.rows) = Cardinality(WithPc({"done"}))

C15_Witness ==
    /\ \A w \in Workers : Finished(w)
    /\ Cardinality(Units) = 4
    /\ WithPc({"done"}) = Units
    /\ BagCardinality(store.rows) = 4

\* C16: at most one thread is inside a store operation (init_db, the insert
\* and commit of _log_transfer, close_connection), the lock is held by that
\* thread and by nobody when no store operation is in progress.
C16_MutualExclusion ==
    /\ Cardinality({t \in Threads : InStore(t)}) <= 1
    /\ \A t \in Threads : InStore(t) <=> lock = t
    /\ lock = Free <=> ~\E t \in Threads : InStore(t)

C16_Witness ==
    /\ \E u \in Units : unit[u].pc = "inserted" /\ lock = u
    /\ \E u \in Units : unit[u].pc = "new"
    /\ main.pc \in CloseSites

\* C17: the lock is never held by a request thread, and a request thread
\* that has not finished can always take its next step, whoever holds the
\* lock and whether or not the writes of its own events have run.
C17_WorkerNeverWaits ==
    /\ lock \in Threads \cup {Free}
    /\ \A w \in Workers :
         (wk[w].on /\ ~Finished(w)) => ENABLED (Submit(w) \/ Stream(w))

C17_Witness ==
    \E w \in Workers :
        /\ Finished(w)
        /\ StatusOf(wk[w].res) \in {200, 206}
        /\ unit[UnitOf(w, 1)].pc = "new"
        /\ unit[UnitOf(w, 2)].pc = "new"
        /\ lock # Free

\* C18: a write that failed in the store (insert or commit error) printed
\* its error and released the lock; the request thread has the response it
\* has without any failure; and a write that took the lock after such a
\* failure and committed has its record in the store.
C18_StoreFailureIsContained ==
    /\ \A u \in Units :
         unit[u].pc = "reported"
           => /\ lock # u
              /\ wk[u.w].res = handle_GET(LogPath, LogRange[u.w], NoFail)
              /\ wk[u.w].res.exc = "none"
              /\ ~Finished(u.w) => ENABLED (Submit(u.w) \/ Stream(u.w))
    /\ \A u \in Units :
         (unit[u].late /\ unit[u].pc = "done")
           => BagIn(Row(u), store.rows)

C18_Witness ==
    \E u, v \in Units :
        /\ unit[u].pc = "reported"
        /\ Finished(u.w)
        /\ StatusOf(wk[u.w].res) = 200
        /\ BodyOf(wk[u.w].res) = FileBytes
        /\ unit[v].late /\ unit[v].pc = "done"
        /\ BagIn(Row(v), store.rows)

\* C19: whatever the shutdown path and the number of close_connection
\* calls, conn.close() runs at most once, and exactly once as soon as one
\* close_connection call has returned or the main thread has exited.
C19_ClosedExactlyOnce ==
    /\ store.closes <= 1
    /\ (main.calls >= 1 \/ main.pc = "exited")
         => (store.closes = 1 /\ conn = "None")

C19_Witness ==
    /\ main.pc = "exited"
    /\ main.calls = 3
    /\ store.closes = 1

\* C20: a log_transfer call made after close_connection has closed the
\* connection executes no insert and adds no record, and its write ends
\* with the RuntimeError "Database connection is not open", which no
\* except clause catches.
C20_LogAfterCloseFails ==
    /\ [](/\ \A u \in Units :
               /\ unit[u].pc \in {"cursor", "inserted"} => conn = "open"
               /\ unit[u].closedAtCall
                    => unit[u].pc \in {"new", "stamped", "held", "died"}
          /\ conn = "None" => store.tx = EmptyBag)
    /\ [][conn = "None" => store'.rows = store.rows]_vars

C20_Witness ==
    \E u \in Units :
        /\ unit[u].closedAtCall
        /\ unit[u].pc = "died"
        /\ lock # u

\* ------------------------------------------------- responses, continued
BodyItems(res) == SelectSeq(res.wire, IsBodyItem)

ErrorPage == <<"error page">>

\* C21: a request answered with 416 sends no byte of the file and submits
\* no complete or range-complete event; when the transport does not fail
\* the 416 response is the last thing the request does.
C21_NothingAfter416 ==
    \A w \in Workers :
        (Handled(exch[w]) /\ StatusOf(exch[w].res) = 416)
        => LET res == exch[w].res IN
           /\ \A i \in 1..Len(BodyItems(res)) : BodyItems(res)[i].data = ErrorPage
           /\ EventsOfType(res, CompleteTypes) = <<>>
           /\ Len(Statuses(res)) = 1
           /\ exch[w].io = NoFail
                => /\ res.events = <<>>
                   /\ res.exc = "none"
                   /\ Len(res.trace) >= 2
                   /\ SubSeq(res.trace, Len(res.trace) - 1, Len(res.trace))
                        = <<"headers", "body">>
                   /\ Len(SelectSeq(res.trace, LAMBDA x : x \in Writes)) = 2

C21_Witness ==
    \E w \in Workers :
        /\ Handled(exch[w]) /\ exch[w].io = NoFail
        /\ fileLen = MaxLen
        /\ StatusOf(exch[w].res) = 416
        /\ exch[w].res.trace = <<"isdir", "open", "headers", "body">>

\* the request has the token and a well-formed Range header, and the file
\* it names cannot be opened or the directory it names cannot be listed
FsFailure(e) ==
    LET fp == translate_path(e.path) IN
    /\ FirstSegment(e.path) = token
    /\ fp # <<>>
    /\ ParseRange(e.range).ok
    /\ IF isdir(fp) THEN ~CanList(fp) \/ (IndexHtml \in listdir(fp)
                                           /\ ~CanOpen(OsJoin(fp, IndexHtml)))
       ELSE ~CanOpen(fp)

NotFoundClass == {404, 302}

\* C22: a request with the token whose file cannot be opened or whose
\* directory cannot be listed is answered with the 404-class response, and
\* no exception leaves do_GET.
C22_FsFailureIs404 ==
    \A w \in Workers :
        (Handled(exch[w]) /\ exch[w].io = NoFail /\ FsFailure(exch[w]))
        => /\ exch[w].res.exc = "none"
           /\ StatusOf(exch[w].res) \in NotFoundClass

\* the request names a directory that holds an index document
IndexedDir(e) ==
    LET fp == translate_path(e.path) IN
    /\ FirstSegment(e.path) = token
    /\ fp # <<>> /\ isdir(fp) /\ CanList(fp)
    /\ IndexHtml \in listdir(fp)

\* the request for the index document itself: the same target with
\* index.html appended after a slash
IndexRequest(path) == RStrip(path, "/") \o <<"/">> \o IndexHtml

\* C23: a request that names a directory holding index.html is served as
\* the request for that document is: the same status line, headers and
\* body, the same log events, and no directory listing.
C23_IndexServedAsFile ==
    \A w \in Workers :
        (Handled(exch[w]) /\ IndexedDir(exch[w]))
        => LET res == exch[w].res
               asFile == handle_GET(IndexRequest(exch[w].path),
                                    exch[w].range, exch[w].io)
           IN  /\ res.wire = asFile.wire
               /\ res.exc = asFile.exc
               /\ res.events = asFile.events
               /\ HeaderVals(res, "Content-type") = <<>>

\* the request names a directory that can be listed and holds no index
\* document
ListedDir(e) ==
    LET fp == translate_path(e.path) IN
    /\ FirstSegment(e.path) = token
    /\ fp # <<>> /\ isdir(fp) /\ CanList(fp)
    /\ IndexHtml \notin listdir(fp)
    /\ ParseRange(e.range).ok

\* an entry of a listing without its trailing slash
EntryName(x) == IF x[Len(x)] = "/" THEN SubSeq(x, 1, Len(x) - 1) ELSE x

\* C24: a directory without index document is answered 200 with a listing
\* that holds every entry of the directory once and nothing else, ordered
\* by lower-cased name, directories marked with a trailing slash; an empty
\* directory gives an empty listing.
C24_ListingIsTheDirectory ==
    \A w \in Workers :
        (Handled(exch[w]) /\ exch[w].io = NoFail /\ ListedDir(exch[w]))
        => LET res == exch[w].res
               fp == translate_path(exch[w].path)
               page == BodyItems(res)[1].data
           IN  /\ StatusOf(res) = 200
               /\ Len(BodyItems(res)) = 1
               /\ Len(page) = Cardinality(listdir(fp))
               /\ {EntryName(page[i]) : i \in 1..Len(page)} = listdir(fp)
               /\ \A i, j \in 1..Len(page) :
                    i < j => LowerRank(EntryName(page[i]))
                               < LowerRank(EntryName(page[j]))
               /\ \A i \in 1..Len(page) :
                    (page[i] # EntryName(page[i]))
                      <=> isdir(OsJoin(fp, EntryName(page[i])))
               /\ listdir(fp) = {} => page = <<>>

C24_Witness ==
    \E w \in Workers :
        /\ Handled(exch[w]) /\ exch[w].io = NoFail /\ ListedDir(exch[w])
        /\ StatusOf(exch[w].res) = 200
        /\ BodyItems(exch[w].res)[1].data =
             << <<"a">>, <<"a", ".zip">>, <<"B">>, <<"d", "/">>, <<"locked">>,
                <<"noperm", "/">> >>

\* ------------------------------------------------- root selection
PublicPath == OsJoin(Cwd, <<"public_html">>)
ResourcesPath == OsJoin(Cwd, <<"resources">>)

HasRemainder(url) == Len(Split1(Strip(UrlPath(url), "/"), "/")) = 2

\* s resolved under the root r
Under(r, s) == OsJoin(r, Strip(s, "/"))

SamePath(p, q) == RStrip(p, "/") = RStrip(q, "/")

\* the rest of a remainder after its first segment
AfterFirst(parts) == IF Len(parts) = 2 THEN parts[2] ELSE <<>>

\* C25 as stated: the segment that follows the token is taken from the
\* request path and then decoded; when it is "resources" the decoded rest
\* is resolved under the resources root, otherwise the whole decoded
\* remainder under the public root; no remainder gives the public root.
C25_RootBySegment ==
    (tpDone /\ FirstSegment(tpIn) = token)
    => IF ~HasRemainder(tpIn) THEN SamePath(tpOut, PublicPath)
       ELSE LET parts == Split1(Remainder(tpIn), "/") IN
            IF Unquote(parts[1]) = <<"resources">>
            THEN SamePath(tpOut, Under(ResourcesPath, Unquote(AfterFirst(parts))))
            ELSE SamePath(tpOut, Under(PublicPath, Unquote(Remainder(tpIn))))

\* C25 amended: the remainder is decoded first and its first segment is
\* taken afterwards, so that an escaped slash also ends the segment.
C25_RootByDecodedSegment ==
    (tpDone /\ FirstSegment(tpIn) = token)
    => IF ~HasRemainder(tpIn) THEN SamePath(tpOut, PublicPath)
       ELSE LET parts == Split1(Unquote(Remainder(tpIn)), "/") IN
            IF parts[1] = <<"resources">>
            THEN SamePath(tpOut, Under(ResourcesPath, AfterFirst(parts)))
            ELSE SamePath(tpOut, Under(PublicPath, Unquote(Remainder(tpIn))))

C25_Witness ==
    /\ tpDone
    /\ tpIn = <<"tok", "/", "resources", "%2f", "a">>
    /\ tpOut = <<"/", "cwd", "/", "resources", "/", "a">>

\* the types the claim expects for the extensions of the model's files
KnownTypes ==
    [ext \in {<<".html">>, <<".zip">>, <<".json">>} |->
        IF ext = <<".html">> THEN "text/html"
        ELSE IF ext = <<".zip">> THEN "application/zip"
        ELSE "application/json"]

ExpectedType(ext) ==
    IF ext \in DOMAIN KnownTypes THEN KnownTypes[ext]
    ELSE "application/octet-stream"

\* C26: a full 200 response for a file carries the Content-Type of the
\* file's extension, application/octet-stream when the extension is not
\* known, and a Content-Disposition attachment header naming the file when
\* the extension is one of the download extensions.
C26_TypeAndDisposition ==
    \A w \in Workers :
        (/\ Handled(exch[w]) /\ exch[w].io = NoFail /\ ReadableFile(exch[w])
         /\ exch[w].range = <<>>)
        => LET res == exch[w].res
               file == TargetOf(exch[w])
               ext == splitext_ext(file)
           IN  /\ StatusOf(res) = 200
               /\ HeaderVals(res, "Content-Type") = <<<<ExpectedType(ext)>>>>
               /\ ext \in DOWNLOAD_EXTENSIONS
                    => /\ HeaderVals(res, "Content-Disposition") # <<>>
                       /\ \A i \in 1..Len(HeaderVals(res, "Content-Disposition")) :
                            HeaderVals(res, "Content-Disposition")[i]
                              = basename(file)

C26_Witness ==
    \E w \in Workers :
        /\ Handled(exch[w]) /\ exch[w].io = NoFail /\ exch[w].range = <<>>
        /\ exch[w].path = P("tok") \o <<"/", "a", ".zip">>
        /\ StatusOf(exch[w].res) = 200
        /\ HeaderVals(exch[w].res, "Content-Type") = <<<<"application/zip">>>>
        /\ HeaderVals(exch[w].res, "Content-Disposition")[1] = <<"a", ".zip">>

\* C27: the committed rows of the transfer log only grow: no step of a
\* write unit (successful, failed or rejected), of init_db or of
\* close_connection removes or changes a committed row.
C27_AppendOnly ==
    [][store.rows \sqsubseteq store'.rows]_vars

C27_Witness ==
    /\ conn = "None"
    /\ BagCardinality(store.rows) >= 2
    /\ \E u \in Units : unit[u].pc = "reported"
    /\ \E u \in Units : unit[u].pc = "died"

\* ------------------------------------------------- start-up
Started == boot.pc \in {"ready", "exited"}

\* C28 as stated: a missing or invalid configuration file ends the start-up
\* with its message before the log is opened, the token made or a signal
\* handler registered; otherwise the url and port of the file are used
\* whenever they are present, and https://localhost and 443 when absent.
C28_ConfigUsedAsGiven ==
    /\ boot.file.kind \in {"missing", "invalid"}
         => /\ boot.done = <<>>
            /\ boot.URL = None /\ boot.PORT = None
            /\ boot.pc # "load"
                 => /\ boot.pc = "exited"
                    /\ boot.exit =
                         (IF boot.file.kind = "missing"
                          THEN "Error: Configuration file not found."
                          ELSE "Error: Configuration file is not valid JSON.")
    /\ (boot.file.kind = "object" /\ boot.pc \in {"token", "signals", "ready"})
         => LET j == boot.file.json IN
            /\ boot.URL = (IF j.url = None THEN Some("https://localhost")
                           ELSE j.url)
            /\ boot.PORT = (IF j.port = None THEN Some(443) ELSE j.port)

\* C28 amended: an url that is absent or empty and a port that is absent
\* or 0 fall back to the defaults.
C28_ConfigOrDefault ==
    /\ boot.file.kind \in {"missing", "invalid"}
         => /\ boot.done = <<>>
            /\ boot.URL = None /\ boot.PORT = None
            /\ boot.pc # "load"
                 => /\ boot.pc = "exited"
                    /\ boot.exit =
                         (IF boot.file.kind = "missing"
                          THEN "Error: Configuration file not found."
                          ELSE "Error: Configuration file is not valid JSON.")
    /\ (boot.file.kind = "object" /\ boot.pc \in {"token", "signals", "ready"})
         => LET j == boot.file.json IN
            /\ boot.URL = (IF j.url \in {None, Some("")}
                           THEN Some("https://localhost") ELSE j.url)
            /\ boot.PORT = (IF j.port \in {None, Some(0)}
                            THEN Some(443) ELSE j.port)

C28_Witness ==
    /\ boot.pc = "ready"
    /\ boot.file.json.url = Some("")
    /\ boot.file.json.port = Some(0)
    /\ boot.URL = Some("https://localhost")
    /\ boot.PORT = Some(443)
    /\ boot.done = <<"log", "token", "signals">>

\* ------------------------------------------------- shutdown and the log
\* the write units a run can start: do_GET calls log_transfer at the start
\* and at the end of each of the two transfers
LogUnits == {UnitOf(w, k) : w \in Workers, k \in 1..2}

\* close_connection has been called, from any of its three call sites
CloseInvoked ==
    \/ main.calls > 0
    \/ main.pc \in CloseSites \cup {HeldAt[site] : site \in CloseSites}

\* the event of a write unit is a durable row
Persisted(u) == u \in DOMAIN unit /\ BagIn(Row(u), store.rows)

\* the store has refused an insert or a commit
StoreRefused == \E v \in DOMAIN unit : unit[v].pc \in StoreFailed

\* signal_handler waits for the lock that the frame it interrupted holds
HandlerBlocked == main.pc = "h_close" /\ lock = MainThread

\* C29: an event submitted with log_transfer before close_connection is
\* invoked is eventually a durable row, in every interleaving, unless the
\* store itself refuses an insert or a commit or the main thread never
\* releases the lock.
C29_SubmittedIsPersisted ==
    \A u \in LogUnits :
        (u \in DOMAIN unit /\ ~CloseInvoked)
            ~> (Persisted(u) \/ StoreRefused \/ HandlerBlocked)

\* C30: once signal_handler has started to close the log on the main
\* thread, its close_connection call returns.
C30_ShutdownTerminates ==
    (main.pc = "h_close") ~> (main.pc = "h_exit")

\* ------------------------------------------------- one response per request
\* C31: a request writes at most one status line, and exactly one when
\* nothing fails and no exception leaves do_GET: after a 200 or 206 no
\* second status follows, also when streaming the body fails with an
\* OS-level error.
C31_OneStatusLine ==
    \A w \in Workers :
        Handled(exch[w]) =>
            /\ Len(Statuses(exch[w].res)) <= 1
            /\ (exch[w].io = NoFail /\ exch[w].res.exc = "none")
                 => Len(Statuses(exch[w].res)) = 1

\* ------------------------------------------------- requests without the token
FsOps == {"isdir", "listdir", "open"}

NoEffect(res) ==
    /\ res.events = <<>>
    /\ \A i \in 1..Len(res.trace) : res.trace[i] \notin FsOps
    /\ store = <<>> /\ unit = <<>>

\* C32: a request whose token does not match, handled by either handler,
\* is answered with the 404-class response, makes no filesystem call and
\* submits no log event, whatever its Range header.
C32_MismatchHasNoEffect ==
    \A w \in Workers :
        (exch[w].done /\ FirstSegment(exch[w].path) # token) =>
            /\ NoEffect(exch[w].res)
            /\ exch[w].io = NoFail
                 => /\ StatusOf(exch[w].res) \in NotFoundClass
                    /\ exch[w].res.exc = "none"

\* the same for the handler of src/server.py alone
MismatchHasNoEffectInServer ==
    \A w \in Workers :
        (Handled(exch[w]) /\ FirstSegment(exch[w].path) # token) =>
            /\ NoEffect(exch[w].res)
            /\ exch[w].io = NoFail
                 => /\ StatusOf(exch[w].res) \in NotFoundClass
                    /\ exch[w].res.exc = "none"

\* ------------------------------------------------- stored timestamps
\* the rows stored for the k-th log_transfer call of the request of w
RowsOf(w, k) ==
    {r \in BagToSet(store.rows) :
        /\ wk[w].on /\ k <= Len(wk[w].res.events)
        /\ r.event = wk[w].res.events[k]}

\* C33: for every request, the timestamp stored with its start or
\* range-start record is not later than the timestamp stored with its
\* complete, range-complete or failed record.
C33_TimestampsFollowEvents ==
    \A w \in Workers :
        \A r1 \in RowsOf(w, 1), r2 \in RowsOf(w, 2) :
            (/\ r1.event.status \in StartTypes
             /\ r2.event.status \in CompleteTypes \cup {"failed"})
            => r1.timestamp <= r2.timestamp

\* ------------------------------------------------- the pair of a transfer
\* C34: the start or range-start event and the complete or range-complete
\* event of one transfer carry the same path.
C34_PairHasOnePath ==
    \A w \in Workers :
        Transferred(exch[w]) =>
            \A s \in 1..Len(EventsOfType(exch[w].res, StartTypes)),
               c \in 1..Len(EventsOfType(exch[w].res, CompleteTypes)) :
                EventsOfType(exch[w].res, StartTypes)[s].path
                    = EventsOfType(exch[w].res, CompleteTypes)[c].path

\* ------------------------------------------------- failed events
\* C35: a "failed" event is submitted only after a start or range-start
\* event of the same request, and never by a request whose response is 416,
\* 400 or the 404-class response.
C35_FailedFollowsStart ==
    \A w \in Workers :
        Handled(exch[w]) =>
            LET res == exch[w].res IN
            \A k \in 1..Len(res.events) :
                res.events[k].status = "failed"
                  => /\ \E j \in 1..(k - 1) :
                          res.events[j].status \in StartTypes
                     /\ StatusOf(res) \notin {416, 400} \cup NotFoundClass

\* ------------------------------------------------- write units terminate
\* the thread of a write unit has ended and does not hold the lock
Ended(u) ==
    /\ u \in DOMAIN unit
    /\ unit[u].pc \in {"done", "reported", "died"}
    /\ lock # u

\* C36: every write unit that has started ends with the lock released,
\* whether its insert succeeds, the store raises an error or the connection
\* is closed.
C36_UnitsTerminate ==
    \A u \in LogUnits : (u \in DOMAIN unit) ~> Ended(u)

\* the same, unless the main thread blocks itself in signal_handler while
\* it holds the lock
UnitsTerminateUnlessBlocked ==
    \A u \in LogUnits : (u \in DOMAIN unit) ~> (Ended(u) \/ HandlerBlocked)

\* ------------------------------------------------- Content-Disposition
Dispositions(res) == HeaderVals(res, "Content-Disposition")

\* C37: a response carries the Content-Disposition attachment header at
\* most once, and only when it delivers a file whose extension is one of
\* the download extensions: never on a redirect, a 400, a 416 or a
\* directory listing.
C37_DispositionOnceOnDownloads ==
    \A w \in Workers :
        Handled(exch[w]) =>
            LET res == exch[w].res IN
            /\ Len(Dispositions(res)) <= 1
            /\ Dispositions(res) # <<>>
                 => /\ StatusOf(res) \in {200, 206}
                    /\ ReadableFile(exch[w])
                    /\ splitext_ext(TargetOf(exch[w])) \in DOWNLOAD_EXTENSIONS

\* ------------------------------------------------- 404 becomes a redirect
\* what the handler reports with send_error(404): no token, a file that
\* cannot be opened, a directory that cannot be listed
Reports404(e) ==
    \/ FirstSegment(e.path) # token
    \/ FsFailure(e)

Redirected(res) ==
    /\ Statuses(res) = <<StatusLine(302)>>
    /\ HeaderVals(res, "Location") = <<URL>>
    /\ BodyOf(res) = <<>>

\* C38: every condition the handler reports as 404 reaches the client as a
\* 302 redirect to the configured URL, and no response has the status 404.
C38_NotFoundIsRedirect ==
    \A w \in Workers :
        Handled(exch[w]) =>
            /\ \A i \in 1..Len(Statuses(exch[w].res)) :
                   Statuses(exch[w].res)[i].code # 404
            /\ (Reports404(exch[w]) /\ exch[w].io = NoFail)
                 => Redirected(exch[w].res)

\* the same for the conditions that do reach send_error(404): no token, and
\* a file that cannot be opened
SendError404IsRedirect ==
    \A w \in Workers :
        Handled(exch[w]) =>
            /\ \A i \in 1..Len(Statuses(exch[w].res)) :
                   Statuses(exch[w].res)[i].code # 404
            /\ (/\ exch[w].io = NoFail
                /\ \/ FirstSegment(exch[w].path) # token
                   \/ /\ FsFailure(exch[w])
                      /\ ~(isdir(translate_path(exch[w].path))
                           /\ ~CanList(translate_path(exch[w].path))))
                 => Redirected(exch[w].res)

====
